---- MODULE Spec2Model ----
\* A model of myshell.c: the read / strip / dispatch loop of main, the sscanf
\* patterns that select a built-in, and the built-ins' system calls acting on
\* a small directory tree.
\*
\* Text is modelled character by character: a C string is the sequence of its
\* characters before the terminating NUL, a character is a one-character
\* string.  A path name of the file system is a sequence of component names,
\* the root directory being the empty sequence.
EXTENDS Integers, Sequences, FiniteSets, TLC

\* ------------------------------------------------------------------------
\* Program constants
\* ------------------------------------------------------------------------
BUFFER_SIZE == 256
MAX_PATH_LENGTH == 256
MAX_FILENAME_LENGTH == 256
CAT_BUF_SIZE == 256

\* ------------------------------------------------------------------------
\* Bounds of the model
\* ------------------------------------------------------------------------
\* How many bytes in front of `buffer` may happen to hold white space.
MaxUnderrun == 1
\* The longest file content that cat is run on in SpecCat.
MaxFileLen == 520

\* ------------------------------------------------------------------------
\* Characters and C strings
\* ------------------------------------------------------------------------
NL == "\n"
WhiteSpace == {" ", "\t", "\n"}

\* isspace(c)
IsSpace(c) == c \in WhiteSpace

Min(a, b) == IF a < b THEN a ELSE b

\* The string of n copies of c.
Pad(n, c) == [i \in 1..n |-> c]

\* The characters of s from (1-based) position p on.
From(s, p) == SubSeq(s, p, Len(s))

\* The first position >= p of s that holds no white space (Len(s)+1 if none).
RECURSIVE SkipSpace(_, _)
SkipSpace(s, p) ==
    IF p <= Len(s) /\ IsSpace(s[p]) THEN SkipSpace(s, p + 1) ELSE p

\* The first position >= p of s that holds white space (Len(s)+1 if none).
RECURSIVE SkipToken(_, _)
SkipToken(s, p) ==
    IF p <= Len(s) /\ ~IsSpace(s[p]) THEN SkipToken(s, p + 1) ELSE p

\* sscanf(input, "<kw> %s", out): the literal characters of kw must match,
\* the blank of the format skips any amount of white space (none included),
\* %s skips white space and stores the following run of non-space characters.
\* n is sscanf's return value (EOF = -1), tok what was stored (<<>>: nothing).
RECURSIVE MatchLiteral(_, _, _)
MatchLiteral(input, kw, i) ==
    IF i > Len(kw) THEN 1
    ELSE IF i > Len(input) THEN -1
    ELSE IF input[i] # kw[i] THEN 0
    ELSE MatchLiteral(input, kw, i + 1)

Sscanf(input, kw) ==
    LET lit == MatchLiteral(input, kw, 1)
        b   == SkipSpace(input, Len(kw) + 1)
        e   == SkipToken(input, b)
    IN  IF lit # 1 THEN [n |-> lit, tok |-> <<>>]
        ELSE IF b > Len(input) THEN [n |-> -1, tok |-> <<>>]
        ELSE [n |-> 1, tok |-> SubSeq(input, b, e - 1)]

\* !strncmp(a, b, BUFFER_SIZE) for strings shorter than BUFFER_SIZE.
StrEq(a, b) ==
    SubSeq(a, 1, Min(Len(a), BUFFER_SIZE)) = SubSeq(b, 1, Min(Len(b), BUFFER_SIZE))

\* strnlen(s, n)
Strnlen(s, n) == Min(Len(s), n)

\* fgets(buffer, size, stdin) on the characters `avail` still to be read of
\* the current line (its newline included): at most size - 1 characters are
\* taken, the rest stays in the stream.
FgetsTake(avail, size) == SubSeq(avail, 1, Min(Len(avail), size - 1))
FgetsRest(avail, size) == From(avail, Min(Len(avail), size - 1) + 1)

\* strip_trailing_whitespace(string), indices 0-based as in the code:
\* i starts at strnlen - 1 and goes down while string[i] is white space.
\* An index below 0 reads the memory in front of the array; `under` is the
\* number of white-space bytes that happen to lie directly in front of it.
\* text: the string afterwards; low: the lowest index read.
RECURSIVE StripFrom(_, _)
StripFrom(s, i) ==
    IF i >= 0 /\ IsSpace(s[i + 1]) THEN StripFrom(SubSeq(s, 1, i), i - 1)
    ELSE [text |-> s, low |-> i]

StripTrailingWhitespace(s, under) ==
    LET r == StripFrom(s, Strnlen(s, BUFFER_SIZE) - 1)
    IN  IF r.low >= 0 THEN r
        ELSE [text |-> r.text, low |-> r.low - under]

\* ------------------------------------------------------------------------
\* The file system the system calls act on
\* ------------------------------------------------------------------------
\* A file system state is [dirs, files]: the sets of the path names of the
\* existing directories and regular files.  No built-in writes a file, so
\* the content of the regular files is the same for the whole run (fdata).
Dot == <<".">>
DotDot == <<".", ".">>
Slash == "/"

\* The components of a path string, empty components dropped.
RECURSIVE SplitPath(_, _, _)
SplitPath(s, p, cur) ==
    IF p > Len(s) THEN (IF cur = <<>> THEN <<>> ELSE <<cur>>)
    ELSE IF s[p] = Slash
         THEN (IF cur = <<>> THEN <<>> ELSE <<cur>>) \o SplitPath(s, p + 1, <<>>)
         ELSE SplitPath(s, p + 1, Append(cur, s[p]))

Components(tok) == SplitPath(tok, 1, <<>>)
IsAbsolute(tok) == tok # <<>> /\ tok[1] = Slash

Front(s) == SubSeq(s, 1, Len(s) - 1)
Last(s) == s[Len(s)]
Parent(path) == IF path = <<>> THEN <<>> ELSE Front(path)

Exists(fs, path) == path \in fs.dirs \/ path \in fs.files

\* The names of the entries of directory `path`.
Children(fs, path) ==
    {Last(q) : q \in {r \in fs.dirs \cup fs.files :
                        Len(r) = Len(path) + 1 /\ Front(r) = path}}

\* Path resolution from directory `cur` along `comps`: every component is
\* looked up in a directory.  err is "" on success.
RECURSIVE Walk(_, _, _)
Walk(fs, cur, comps) ==
    IF comps = <<>> THEN [err |-> "", path |-> cur]
    ELSE IF cur \in fs.files THEN [err |-> "ENOTDIR", path |-> cur]
    ELSE IF cur \notin fs.dirs THEN [err |-> "ENOENT", path |-> cur]
    ELSE LET c == Head(comps)
         IN  IF c = Dot THEN Walk(fs, cur, Tail(comps))
             ELSE IF c = DotDot THEN Walk(fs, Parent(cur), Tail(comps))
             ELSE IF Exists(fs, Append(cur, c))
                  THEN Walk(fs, Append(cur, c), Tail(comps))
                  ELSE [err |-> "ENOENT", path |-> Append(cur, c)]

StartDir(cwd, tok) == IF IsAbsolute(tok) THEN <<>> ELSE cwd

\* The node a path string names.
Lookup(fs, cwd, tok) ==
    IF tok = <<>> THEN [err |-> "ENOENT", path |-> cwd]
    ELSE IF ~IsAbsolute(tok) /\ cwd \notin fs.dirs
         THEN [err |-> "ENOENT", path |-> cwd]
    ELSE Walk(fs, StartDir(cwd, tok), Components(tok))

\* The directory that holds the last component of a path string.
LookupParent(fs, cwd, tok) ==
    IF tok = <<>> THEN [err |-> "ENOENT", path |-> cwd]
    ELSE IF ~IsAbsolute(tok) /\ cwd \notin fs.dirs
         THEN [err |-> "ENOENT", path |-> cwd]
    ELSE LET r == Walk(fs, StartDir(cwd, tok), Front(Components(tok)))
         IN  IF r.err # "" THEN r
             ELSE IF r.path \in fs.files THEN [err |-> "ENOTDIR", path |-> r.path]
             ELSE r

\* chdir(path): the new working directory, or the errno.
SysChdir(fs, cwd, tok) ==
    LET r == Lookup(fs, cwd, tok)
    IN  IF r.err # "" THEN [err |-> r.err, cwd |-> cwd]
        ELSE IF r.path \notin fs.dirs THEN [err |-> "ENOTDIR", cwd |-> cwd]
        ELSE [err |-> "", cwd |-> r.path]

\* opendir(path) and the readdir loop: the names read, "." and ".." included.
SysOpendir(fs, cwd, tok) ==
    LET r == Lookup(fs, cwd, tok)
    IN  IF r.err # "" THEN [err |-> r.err, names |-> {}]
        ELSE IF r.path \notin fs.dirs THEN [err |-> "ENOTDIR", names |-> {}]
        ELSE [err |-> "", names |-> {Dot, DotDot} \cup Children(fs, r.path)]

\* open(path, O_RDONLY): the kind of the node opened.
SysOpen(fs, cwd, tok) ==
    LET r == Lookup(fs, cwd, tok)
    IN  IF r.err # "" THEN [err |-> r.err, kind |-> "none"]
        ELSE IF r.path \in fs.dirs THEN [err |-> "", kind |-> "dir"]
        ELSE [err |-> "", kind |-> "file"]

\* stat(path, &st)
SysStat(fs, cwd, tok) == SysOpen(fs, cwd, tok)

\* mkdir(path, 0755)
SysMkdir(fs, cwd, tok) ==
    LET comps == Components(tok)
        r     == LookupParent(fs, cwd, tok)
    IN  IF tok = <<>> THEN [err |-> "ENOENT", fs |-> fs]
        ELSE IF comps = <<>> THEN [err |-> "EEXIST", fs |-> fs]
        ELSE IF r.err # "" THEN [err |-> r.err, fs |-> fs]
        ELSE IF Last(comps) \in {Dot, DotDot} THEN [err |-> "EEXIST", fs |-> fs]
        ELSE IF Exists(fs, Append(r.path, Last(comps)))
             THEN [err |-> "EEXIST", fs |-> fs]
        ELSE [err |-> "",
              fs  |-> [fs EXCEPT !.dirs = @ \cup {Append(r.path, Last(comps))}]]

\* rmdir(path)
SysRmdir(fs, cwd, tok) ==
    LET comps == Components(tok)
        r     == LookupParent(fs, cwd, tok)
        t     == Append(r.path, Last(comps))
    IN  IF tok = <<>> THEN [err |-> "ENOENT", fs |-> fs]
        ELSE IF comps = <<>> THEN [err |-> "EBUSY", fs |-> fs]
        ELSE IF r.err # "" THEN [err |-> r.err, fs |-> fs]
        ELSE IF Last(comps) = Dot THEN [err |-> "EINVAL", fs |-> fs]
        ELSE IF Last(comps) = DotDot THEN [err |-> "ENOTEMPTY", fs |-> fs]
        ELSE IF ~Exists(fs, t) THEN [err |-> "ENOENT", fs |-> fs]
        ELSE IF t \in fs.files THEN [err |-> "ENOTDIR", fs |-> fs]
        ELSE IF Children(fs, t) # {} THEN [err |-> "ENOTEMPTY", fs |-> fs]
        ELSE [err |-> "", fs |-> [fs EXCEPT !.dirs = @ \ {t}]]

\* unlink(path)
SysUnlink(fs, cwd, tok) ==
    LET comps == Components(tok)
        r     == LookupParent(fs, cwd, tok)
        t     == Append(r.path, Last(comps))
    IN  IF tok = <<>> THEN [err |-> "ENOENT", fs |-> fs]
        ELSE IF comps = <<>> THEN [err |-> "EISDIR", fs |-> fs]
        ELSE IF r.err # "" THEN [err |-> r.err, fs |-> fs]
        ELSE IF Last(comps) \in {Dot, DotDot} THEN [err |-> "EISDIR", fs |-> fs]
        ELSE IF ~Exists(fs, t) THEN [err |-> "ENOENT", fs |-> fs]
        ELSE IF t \in fs.dirs THEN [err |-> "EISDIR", fs |-> fs]
        ELSE [err |-> "", fs |-> [fs EXCEPT !.files = @ \ {t}]]

\* getcwd(current_dir, size): fails when the directory is gone or its name
\* (a slash and a component per level) does not fit in size bytes.
RECURSIVE PathLen(_)
PathLen(path) ==
    IF path = <<>> THEN 0 ELSE 1 + Len(Head(path)) + PathLen(Tail(path))

SysGetcwd(fs, cwd, size) ==
    cwd \in fs.dirs /\ (IF cwd = <<>> THEN 1 ELSE PathLen(cwd)) < size

\* ------------------------------------------------------------------------
\* What the shell writes and which system calls it issues
\* ------------------------------------------------------------------------
\* One item written to standard output.  kind is "prompt" (path: the
\* directory shown), "pwd" (path), "ls" (names: the entries printed, their
\* order being the system's), "write" (bytes: one write(1, buf, bytes) of
\* cat) or "stat" (path: the name as typed, bytes: the size).
OutItem(kind, path, names, bytes) ==
    [kind |-> kind, path |-> path, names |-> names, bytes |-> bytes]

\* One line written to standard error: "<cmd>: <strerror(errno)>", or
\* "myshell: <line>: No such file or directory" (cmd "myshell", errno "").
ErrItem(cmd, errno, line) == [cmd |-> cmd, errno |-> errno, line |-> line]

\* One file-system call issued: its name and its path argument.
Call(sys, arg) == [sys |-> sys, arg |-> arg]

\* What a built-in leaves behind: the working directory, the file system,
\* the items written, the calls issued, whether the process still runs, and
\* the global `filename` array.
Result(cwd, fs, out, err, calls, pc, filename) ==
    [cwd |-> cwd, fs |-> fs, out |-> out, err |-> err, calls |-> calls,
     pc |-> pc, filename |-> filename]

\* The passwd record getpwuid(getuid()) returns: NULL (ok = FALSE) when the
\* user has no record.
HomeDir == <<"/", "u">>
PwRecords == {[ok |-> TRUE, dir |-> HomeDir], [ok |-> FALSE, dir |-> <<>>]}

\* What dereferencing the NULL record can do: the process is killed, or the
\* read yields an empty string and do_cd goes on.
UbOutcomes == {"crash", "garbage"}

\* strncpy(dst, src, n) for a source shorter than n.
Strncpy(src, n) == SubSeq(src, 1, Min(Len(src), n))

\* do_cd(dirname), dirname being the global filename array.
DoCd(fs, cwd, dirname, pw, ub) ==
    LET needHome == Strnlen(dirname, MAX_PATH_LENGTH) = 0
        dir      == IF needHome /\ pw.ok THEN Strncpy(pw.dir, MAX_PATH_LENGTH)
                    ELSE dirname
        r        == SysChdir(fs, cwd, dir)
    IN  IF needHome /\ ~pw.ok /\ ub = "crash"
        THEN Result(cwd, fs, <<>>, <<>>, <<>>, "crashed", dirname)
        ELSE IF r.err # ""
        THEN Result(cwd, fs, <<>>, <<ErrItem("cd", r.err, <<>>)>>,
                    <<Call("chdir", dir)>>, "running", dir)
        ELSE Result(r.cwd, fs, <<>>, <<>>, <<Call("chdir", dir)>>, "running", dir)

\* do_ls(dirname)
DoLs(fs, cwd, dirname) ==
    LET r == SysOpendir(fs, cwd, dirname)
    IN  IF r.err # ""
        THEN Result(cwd, fs, <<>>, <<ErrItem("ls", r.err, <<>>)>>,
                    <<Call("opendir", dirname)>>, "running", dirname)
        ELSE Result(cwd, fs, <<OutItem("ls", <<>>, r.names, <<>>)>>, <<>>,
                    <<Call("opendir", dirname)>>, "running", dirname)

\* read(fd, buf, sizeof(buf)) at offset pos of a regular file: the count.
ReadCount(data, pos) == Min(CAT_BUF_SIZE, Len(data) - pos)

\* The loop of do_cat: one write per read that returned bytes > 0, each of
\* the first `bytes` bytes of buf.  The result is the sequence of the chunks
\* written.
\* (MutCatLoopDropsTail is the loop written as
\* while (read(...) == sizeof(buf)): it stops at the first short read.)
RECURSIVE MutCatLoopDropsTail(_, _)
MutCatLoopDropsTail(data, pos) ==
    IF ReadCount(data, pos) = CAT_BUF_SIZE
    THEN <<SubSeq(data, pos + 1, pos + CAT_BUF_SIZE)>>
         \o MutCatLoopDropsTail(data, pos + CAT_BUF_SIZE)
    ELSE <<>>

RECURSIVE CatLoop(_, _)
CatLoop(data, pos) ==
    LET bytes == ReadCount(data, pos)
    IN  IF bytes > 0
        THEN <<SubSeq(data, pos + 1, pos + bytes)>> \o CatLoop(data, pos + bytes)
        ELSE <<>>

\* do_cat(filename): a directory opens, and its first read fails (EISDIR).
DoCat(fs, cwd, name, data) ==
    LET r      == SysOpen(fs, cwd, name)
        chunks == CatLoop(data, 0)
    IN  IF r.err # ""
        THEN Result(cwd, fs, <<>>, <<ErrItem("cat", r.err, <<>>)>>,
                    <<Call("open", name)>>, "running", name)
        ELSE IF r.kind = "dir"
        THEN Result(cwd, fs, <<>>, <<ErrItem("cat", "EISDIR", <<>>)>>,
                    <<Call("open", name)>>, "running", name)
        ELSE Result(cwd, fs,
                    [i \in 1..Len(chunks) |-> OutItem("write", <<>>, {}, chunks[i])],
                    <<>>, <<Call("open", name)>>, "running", name)

\* do_mkdir(dirname)
DoMkdir(fs, cwd, dirname) ==
    LET r == SysMkdir(fs, cwd, dirname)
    IN  Result(cwd, r.fs, <<>>,
               IF r.err # "" THEN <<ErrItem("mkdir", r.err, <<>>)>> ELSE <<>>,
               <<Call("mkdir", dirname)>>, "running", dirname)

\* do_rm(filename)
DoRm(fs, cwd, name) ==
    LET r == SysUnlink(fs, cwd, name)
    IN  Result(cwd, r.fs, <<>>,
               IF r.err # "" THEN <<ErrItem("rm", r.err, <<>>)>> ELSE <<>>,
               <<Call("unlink", name)>>, "running", name)

\* do_rmdir(dirname).  (MutDoRmdirUnlinks is do_rmdir calling unlink, as
\* do_rm does.)
MutDoRmdirUnlinks(fs, cwd, dirname) ==
    LET r == SysUnlink(fs, cwd, dirname)
    IN  Result(cwd, r.fs, <<>>,
               IF r.err # "" THEN <<ErrItem("rmdir", r.err, <<>>)>> ELSE <<>>,
               <<Call("rmdir", dirname)>>, "running", dirname)

DoRmdir(fs, cwd, dirname) ==
    LET r == SysRmdir(fs, cwd, dirname)
    IN  Result(cwd, r.fs, <<>>,
               IF r.err # "" THEN <<ErrItem("rmdir", r.err, <<>>)>> ELSE <<>>,
               <<Call("rmdir", dirname)>>, "running", dirname)

\* do_pwd()
DoPwd(fs, cwd, name) ==
    Result(cwd, fs,
           IF SysGetcwd(fs, cwd, MAX_PATH_LENGTH)
           THEN <<OutItem("pwd", cwd, {}, <<>>)>> ELSE <<>>,
           <<>>, <<>>, "running", name)

\* do_stat(filename): the File and Size lines (link count and inode number
\* are not part of this file system).
DoStat(fs, cwd, name, data) ==
    LET r == SysStat(fs, cwd, name)
    IN  IF r.err # ""
        THEN Result(cwd, fs, <<>>, <<ErrItem("stat", r.err, <<>>)>>,
                    <<Call("stat", name)>>, "running", name)
        ELSE Result(cwd, fs,
                    <<OutItem("stat", <<name>>, {},
                              <<IF r.kind = "file" THEN Len(data) ELSE 0>>)>>,
                    <<>>, <<Call("stat", name)>>, "running", name)

\* ------------------------------------------------------------------------
\* Dispatch
\* ------------------------------------------------------------------------
KwCd == <<"c", "d">>
KwExit == <<"e", "x", "i", "t">>
KwCat == <<"c", "a", "t">>
KwStat == <<"s", "t", "a", "t">>
KwMkdir == <<"m", "k", "d", "i", "r">>
KwRmdir == <<"r", "m", "d", "i", "r">>
KwRm == <<"r", "m">>
KwLs == <<"l", "s">>
KwPwd == <<"p", "w", "d">>

\* execute_command(buffer); name is the global filename array on entry.
ExecuteCommand(fs, cwd, buf, name, data) ==
    IF Sscanf(buf, KwCat).n = 1 THEN DoCat(fs, cwd, Sscanf(buf, KwCat).tok, data)
    ELSE IF Sscanf(buf, KwStat).n = 1
         THEN DoStat(fs, cwd, Sscanf(buf, KwStat).tok, data)
    ELSE IF Sscanf(buf, KwMkdir).n = 1
         THEN DoMkdir(fs, cwd, Sscanf(buf, KwMkdir).tok)
    ELSE IF Sscanf(buf, KwRmdir).n = 1
         THEN DoRmdir(fs, cwd, Sscanf(buf, KwRmdir).tok)
    ELSE IF Sscanf(buf, KwRm).n = 1 THEN DoRm(fs, cwd, Sscanf(buf, KwRm).tok)
    ELSE IF Sscanf(buf, KwLs).n = 1 \/ StrEq(buf, KwLs)
         THEN LET arg == IF Sscanf(buf, KwLs).n = 1 THEN Sscanf(buf, KwLs).tok
                         ELSE name
              IN  DoLs(fs, cwd, IF Strnlen(arg, BUFFER_SIZE) = 0 THEN Dot ELSE arg)
    ELSE IF StrEq(buf, KwPwd) THEN DoPwd(fs, cwd, name)
    ELSE Result(cwd, fs, <<>>,
                IF Strnlen(buf, BUFFER_SIZE) # 0
                THEN <<ErrItem("myshell", "", buf)>> ELSE <<>>,
                <<>>, "running", name)

\* bzero(filename, MAX_FILENAME_LENGTH): the array afterwards.
\* (MutBzeroSkipped is main without the bzero.)
MutBzeroSkipped(name) == name

Bzero(name) == IF MAX_FILENAME_LENGTH > 0 THEN <<>> ELSE name

\* The body of main's loop after fgets and strip_trailing_whitespace.
MainDispatch(fs, cwd, buf, name, data, pw, ub) ==
    LET cleared == Bzero(name)
        c       == Sscanf(buf, KwCd)
        arg     == IF c.n = 1 THEN c.tok ELSE cleared
    IN  IF c.n = 1 \/ StrEq(buf, KwCd) THEN DoCd(fs, cwd, arg, pw, ub)
        ELSE IF StrEq(buf, KwExit)
             THEN Result(cwd, fs, <<>>, <<>>, <<>>, "exited", arg)
        ELSE ExecuteCommand(fs, cwd, buf, arg, data)

\* ------------------------------------------------------------------------
\* The lines typed
\* ------------------------------------------------------------------------
Sp == <<" ">>
ArgF == <<"f">>
ArgD == <<"d">>
ArgE == <<"e">>
ArgG == <<"g">>
ArgW == <<"w">>
ArgXE == <<"x", "/", "e">>
Foobar == <<"f", "o", "o", "b", "a", "r">>

\* The directory arguments mkdir and rmdir are given: e (absent at first),
\* d (a directory holding a file), f (a regular file), x/e (no parent).
\* cat, stat and rm are given the regular file g, cd the directory w.
DirArgs == {ArgE, ArgD, ArgF, ArgXE}

\* A line longer than the line buffer: BUFFER_SIZE - 1 filler characters
\* followed by the text of a command.
LongLine == Pad(BUFFER_SIZE - 1, "x") \o KwRm \o Sp \o ArgG

BareLines == {KwCd, KwExit, KwCat, KwStat, KwMkdir, KwRmdir, KwRm, KwLs, KwPwd}

ArgLines ==
    {KwLs \o Sp \o Dot, KwLs \o Sp \o ArgD, KwCd \o Sp \o ArgW,
     KwCat \o Sp \o ArgG, KwStat \o Sp \o ArgG, KwRm \o Sp \o ArgG}
    \cup {KwMkdir \o Sp \o a : a \in DirArgs}
    \cup {KwRmdir \o Sp \o a : a \in DirArgs}

\* A keyword directly followed by other characters.
GluedLines == {KwCat \o ArgG, KwRm \o ArgG, KwCd \o ArgW, KwLs \o ArgD}

\* The lines of the input, without their newline: the empty line, white
\* space only, trailing white space, an unknown word, and the above.
Lines ==
    {<<>>, Sp, KwPwd \o <<" ", "\t">>, Foobar, LongLine}
    \cup BareLines \cup ArgLines \cup GluedLines

IsBlank(l) == \A i \in 1..Len(l) : IsSpace(l[i])

\* ------------------------------------------------------------------------
\* State
\* ------------------------------------------------------------------------
VARIABLES
    pc,        \* "running", "exited" (exit(EXIT_SUCCESS)) or "crashed"
    buffer,    \* the global line buffer, as a C string
    filename,  \* the global argument buffer, as a C string
    cwd,       \* the process's working directory
    fs,        \* the file system
    fdata,     \* the content of the regular files
    pending,   \* the characters of the current input line not yet read
    eof,       \* fgets has returned NULL: standard input is at its end
    got,       \* the last iteration's fgets returned a line
    chunk,     \* which piece of its input line the last fgets returned
    stripLow,  \* the lowest index strip_trailing_whitespace read, last call
    out,       \* what the last iteration wrote to standard output
    err,       \* what the last iteration wrote to standard error
    calls,     \* the file-system calls the last iteration issued
    pre        \* what the last iteration found: fs, cwd, filename, and
               \* the calls and error lines of the iteration before it

vars == <<pc, buffer, filename, cwd, fs, fdata, pending, eof, got, chunk,
          stripLow, out, err, calls, pre>>

HomePath == Components(HomeDir)

\* The home directory /u holds the directories d (holding a file) and w and
\* the files f and g; w holds a directory d (holding a file) and the files
\* e and f.
InitFs ==
    [dirs  |-> {<<>>, <<<<"u">>>>, <<<<"u">>, ArgD>>, <<<<"u">>, ArgW>>,
                <<<<"u">>, ArgW, ArgD>>},
     files |-> {<<<<"u">>, ArgF>>, <<<<"u">>, ArgG>>, <<<<"u">>, ArgD, ArgF>>,
                <<<<"u">>, ArgW, ArgE>>, <<<<"u">>, ArgW, ArgF>>,
                <<<<"u">>, ArgW, ArgD, ArgF>>}]

\* File contents: n bytes whose values differ from their neighbours' and
\* from those one read buffer away.
Content(n) == [i \in 1..n |-> (i * 7) % 251]

\* The state an iteration of the loop starts in.
Snapshot ==
    [fs |-> fs, cwd |-> cwd, filename |-> filename, calls |-> calls, err |-> err]

InitShell ==
    /\ pc = "running"
    /\ buffer = <<>>
    /\ filename = <<>>
    /\ fs = InitFs
    /\ pending = <<>>
    /\ eof = FALSE
    /\ got = FALSE
    /\ chunk = 0
    /\ stripLow = 0
    /\ out = <<>>
    /\ err = <<>>
    /\ calls = <<>>

Init ==
    /\ InitShell
    /\ cwd = HomePath
    /\ fdata = Content(3)
    /\ pre = Snapshot

\* display_prompt()
DisplayPrompt ==
    IF SysGetcwd(fs, cwd, MAX_PATH_LENGTH)
    THEN <<OutItem("prompt", cwd, {}, <<>>)>> ELSE <<>>

\* What the environment contributes to an iteration.  Only a line of white
\* space makes strip_trailing_whitespace look in front of the buffer, only a
\* bare cd makes do_cd use the passwd record, and only a NULL record makes
\* do_cd's behaviour undefined (with a record, ub is not looked at).
Underruns(text) == IF IsBlank(text) THEN 0..MaxUnderrun ELSE {0}
PwFor(line) == IF line = KwCd THEN PwRecords ELSE {[ok |-> TRUE, dir |-> HomeDir]}
UbFor(pw) == IF pw.ok THEN {"crash"} ELSE UbOutcomes

\* One iteration of main's loop in which fgets returns a line: the prompt,
\* fgets on the characters `avail` of the input, strip_trailing_whitespace,
\* bzero and the dispatch.
Iteration(avail, piece) ==
    \E under \in Underruns(FgetsTake(avail, BUFFER_SIZE)) :
    \E st \in {StripTrailingWhitespace(FgetsTake(avail, BUFFER_SIZE), under)} :
    \E pw \in PwFor(st.text) : \E ub \in UbFor(pw) :
    \E r \in {MainDispatch(fs, cwd, st.text, filename, fdata, pw, ub)} :
        /\ buffer' = st.text
        /\ stripLow' = st.low
        /\ pending' = FgetsRest(avail, BUFFER_SIZE)
        /\ chunk' = piece
        /\ got' = TRUE
        /\ pc' = r.pc
        /\ cwd' = r.cwd
        /\ fs' = r.fs
        /\ filename' = r.filename
        /\ out' = DisplayPrompt \o r.out
        /\ err' = r.err
        /\ calls' = r.calls
        /\ pre' = Snapshot
        /\ UNCHANGED <<fdata, eof>>

\* fgets returns the first piece of a new input line.
ReadLine ==
    /\ pc = "running"
    /\ ~eof
    /\ pending = <<>>
    /\ \E l \in Lines : Iteration(Append(l, NL), 1)

\* fgets returns the next piece of an input line that did not fit.
ReadRest ==
    /\ pc = "running"
    /\ pending # <<>>
    /\ Iteration(pending, chunk + 1)

\* fgets returns NULL at the end of standard input: the loop prints the
\* prompt and goes round again.
ReadEof ==
    /\ pc = "running"
    /\ pending = <<>>
    /\ eof' = TRUE
    /\ got' = FALSE
    /\ out' = DisplayPrompt
    /\ err' = <<>>
    /\ calls' = <<>>
    /\ pre' = Snapshot
    /\ UNCHANGED <<pc, buffer, filename, cwd, fs, fdata, pending, chunk,
                   stripLow>>

Next == ReadLine \/ ReadRest \/ ReadEof

Spec == Init /\ [][Next]_vars

\* ------------------------------------------------------------------------
\* cat on files of every length
\* ------------------------------------------------------------------------
CatLine == KwCat \o Sp \o ArgG

InitCat ==
    /\ InitShell
    /\ cwd = HomePath
    /\ fdata \in {Content(n) : n \in 0..MaxFileLen}
    /\ pre = Snapshot

\* The line "cat g" is typed.
ReadCat ==
    /\ pc = "running"
    /\ ~eof
    /\ pending = <<>>
    /\ Iteration(Append(CatLine, NL), 1)

NextCat == ReadCat

SpecCat == InitCat /\ [][NextCat]_vars

\* ------------------------------------------------------------------------
\* Properties
\* ------------------------------------------------------------------------
\* What the last iteration wrote to standard output after its prompt.
Printed == SelectSeq(out, LAMBDA item : item.kind # "prompt")

\* The bytes the write calls of the last iteration wrote, in order.
RECURSIVE Concat(_)
Concat(items) ==
    IF items = <<>> THEN <<>> ELSE Head(items).bytes \o Concat(Tail(items))

Written == Concat(SelectSeq(out, LAMBDA item : item.kind = "write"))

\* The one line "myshell: <line>: No such file or directory".
NotFound(line) == <<ErrItem("myshell", "", line)>>

\* A keyword that takes an argument, white space, and an argument.
ArgKeywords == {KwCd, KwCat, KwStat, KwMkdir, KwRmdir, KwRm, KwLs}

IsKeywordWithArg(line) ==
    \E kw \in ArgKeywords :
        /\ Len(line) > Len(kw) + 1
        /\ SubSeq(line, 1, Len(kw)) = kw
        /\ IsSpace(line[Len(kw) + 1])
        /\ \E i \in (Len(kw) + 2)..Len(line) : ~IsSpace(line[i])

\* Whether the path string D names an entry, and whether it names a
\* directory that holds nothing.
EntryExists(f, dir, D) == Lookup(f, dir, D).err = ""

IsEmptyDir(f, dir, D) ==
    /\ EntryExists(f, dir, D)
    /\ Lookup(f, dir, D).path \in f.dirs
    /\ Children(f, Lookup(f, dir, D).path) = {}

\* C1: a non-empty trimmed line that is neither exactly exit, pwd, ls or cd
\* nor a keyword followed by white space and an argument invokes no built-in
\* (no file-system call), writes exactly "myshell: <line>: No such file or
\* directory" to standard error, and changes neither the file system nor the
\* working directory.
C1_UnrecognizedLineOnlyReports ==
    (/\ got
     /\ buffer # <<>>
     /\ buffer \notin {KwExit, KwPwd, KwLs, KwCd}
     /\ ~IsKeywordWithArg(buffer))
    => (/\ calls = <<>>
        /\ err = NotFound(buffer)
        /\ fs = pre.fs
        /\ cwd = pre.cwd)

\* C2: a line that is exactly cat, stat, mkdir, rmdir or rm, with no
\* argument, invokes no built-in and falls through to the "No such file or
\* directory" error.
C2_BareKeywordFallsThrough ==
    (got /\ buffer \in {KwCat, KwStat, KwMkdir, KwRmdir, KwRm})
    => (calls = <<>> /\ err = NotFound(buffer))

\* C3: after any line other than exit, failing built-ins and a bare cd
\* without a resolvable home directory included, the shell has written at
\* most one error line and is back in its loop for the next prompt and line.
C3_LoopSurvivesEveryLine ==
    (got /\ buffer # KwExit) => (pc = "running" /\ Len(err) <= 1)

\* C4: once the line read has reported the end of standard input, the main
\* loop is over: the process does not go on prompting and reading.
C4_EofEndsLoop == eof => pc # "running"

\* C5: every newline-terminated input line causes at most one dispatch: what
\* exceeds the line buffer is discarded, not read back as a further command.
C5_OneDispatchPerLine == got => chunk <= 1

\* C6, as stated: for every directory argument D, in every starting state,
\* rmdir D typed right after mkdir D leaves D existing exactly if it existed
\* before the mkdir.
C6_MkdirRmdirRestoresAlways ==
    [][\A D \in DirArgs :
         (/\ got /\ buffer = KwMkdir \o Sp \o D
          /\ got' /\ buffer' = KwRmdir \o Sp \o D)
         => (EntryExists(fs', cwd', D) <=> EntryExists(pre.fs, pre.cwd, D))]_vars

\* C6, amended: for every directory argument D that is not an existing
\* empty directory before the mkdir, rmdir D typed right after mkdir D
\* leaves D existing exactly if it existed before the mkdir.
C6_MkdirRmdirRestores ==
    [][\A D \in DirArgs :
         (/\ got /\ buffer = KwMkdir \o Sp \o D
          /\ got' /\ buffer' = KwRmdir \o Sp \o D
          /\ ~IsEmptyDir(pre.fs, pre.cwd, D))
         => (EntryExists(fs', cwd', D) <=> EntryExists(pre.fs, pre.cwd, D))]_vars

\* rmdir e has just removed the directory that the mkdir e of the
\* iteration before it had created.
C6_Witness ==
    /\ got
    /\ buffer = KwRmdir \o Sp \o ArgE
    /\ pre.calls = <<Call("mkdir", ArgE)>>
    /\ pre.err = <<>>
    /\ EntryExists(pre.fs, pre.cwd, ArgE)
    /\ calls = <<Call("rmdir", ArgE)>>
    /\ err = <<>>
    /\ ~EntryExists(fs, cwd, ArgE)

\* C7: cat of a file writes exactly the file's bytes, in order, whatever the
\* length of the file relative to the 256-byte read buffer.
C7_CatWritesContent ==
    (got /\ buffer = CatLine) => (Written = fdata /\ err = <<>>)

\* cat has written a file that takes more than one read and whose last
\* read is a short one.
C7_Witness ==
    /\ got
    /\ buffer = CatLine
    /\ Len(fdata) > CAT_BUF_SIZE
    /\ Len(fdata) % CAT_BUF_SIZE # 0
    /\ Len(Printed) > 1
    /\ Written = fdata

\* C8: a line that is exactly cd leaves the working directory at the user's
\* home directory, and a pwd line right after it prints that directory.
C8_CdGoesHome ==
    [][/\ (got' /\ buffer' = KwCd) => cwd' = HomePath
       /\ (got /\ buffer = KwCd /\ got' /\ buffer' = KwPwd)
          => Printed' = <<OutItem("pwd", HomePath, {}, <<>>)>>]_vars

\* C9: a bare ls does exactly what the line "ls ." does in the same state,
\* whatever argument an earlier line left in filename.
C9_BareLsListsDot ==
    (got /\ buffer = KwLs)
    => \A r \in {MainDispatch(pre.fs, pre.cwd, KwLs \o Sp \o Dot, <<>>, fdata,
                              [ok |-> TRUE, dir |-> HomeDir], "crash")} :
         /\ calls = r.calls
         /\ Printed = r.out
         /\ err = r.err
         /\ fs = r.fs
         /\ cwd = r.cwd

\* A bare ls has listed the working directory although the line before it
\* had left an argument other than "." in filename.
C9_Witness ==
    /\ got
    /\ buffer = KwLs
    /\ pre.filename \notin {<<>>, Dot}
    /\ calls = <<Call("opendir", Dot)>>
    /\ Len(Printed) = 1
    /\ Printed[1].names = {Dot, DotDot} \cup Children(fs, cwd)

\* C10: strip_trailing_whitespace reads and writes only indices 0 <= i <
\* BUFFER_SIZE of the line buffer, and a line of white space alone ends as
\* the empty string with no action and no error.
C10_StripStaysInBuffer ==
    got => /\ stripLow >= 0
           /\ stripLow < BUFFER_SIZE
           /\ (chunk = 1 /\ buffer = <<>>) => (calls = <<>> /\ err = <<>>)

====
